---- MODULE Spec2Model ----
(***************************************************************************)
(* A model of the rocfl command line (src/bin/rocfl.rs): the `ls`          *)
(* subcommand's query routing, error routing, within-object sort and line  *)
(* rendering.  Strings are sequences of one-character strings, Option<T>   *)
(* is a sequence of length 0 (None) or 1 (Some), Result<T, E> is a record  *)
(* [ok, val, err], and an error is the sequence of its context messages,   *)
(* outermost first.                                                        *)
(***************************************************************************)
EXTENDS Integers, Sequences, FiniteSets, TLC

\* Bounds of the model.
MaxObjects == 3
MaxFiles == 3

\* Column widths of FormatListing::fmt.
NameWidth == 42
VersionWidth == 5
UpdatedWidth == 19

VARIABLES args, repo, pc, objects, stdout, stderr, queries, ret, prev, sort_memo

vars == <<args, repo, pc, objects, stdout, stderr, queries, ret, prev, sort_memo>>

----------------------------------------------------------------------------
\* Strings, integers and their orderings.

TAB == "\t"

\* The characters the model uses, in ascending byte order.
AsciiOrder ==
    << TAB, " ", "-", ".", "/", "0", "1", "2", "3", "4", "5", "6", "7", "8", "9",
       ":", "E", "F", "O", "a", "b", "c", "d", "e", "f", "g", "h", "i", "j", "k",
       "l", "m", "n", "o", "p", "r", "s", "t", "u", "v", "w" >>

Ord(c) == CHOOSE i \in 1..Len(AsciiOrder) : AsciiOrder[i] = c

IntCmp(a, b) == IF a < b THEN "Less" ELSE IF a > b THEN "Greater" ELSE "Equal"

\* String::cmp: lexicographic on the bytes.
RECURSIVE StrCmp(_, _)
StrCmp(a, b) ==
    IF a = <<>> /\ b = <<>> THEN "Equal"
    ELSE IF a = <<>> THEN "Less"
    ELSE IF b = <<>> THEN "Greater"
    ELSE IF Head(a) = Head(b) THEN StrCmp(Tail(a), Tail(b))
    ELSE IntCmp(Ord(Head(a)), Ord(Head(b)))

\* Decimal digits of a natural number.
RECURSIVE Digits(_)
Digits(n) ==
    IF n < 10 THEN << AsciiOrder[Ord("0") + n] >>
    ELSE Digits(n \div 10) \o << AsciiOrder[Ord("0") + (n % 10)] >>

Spaces(k) == [i \in 1..k |-> " "]

\* {:<w}: left-justified, padded to at least w, never truncated.
PadRight(s, w) == IF Len(s) >= w THEN s ELSE s \o Spaces(w - Len(s))

\* {:>w}: right-justified, padded to at least w, never truncated.
PadLeft(s, w) == IF Len(s) >= w THEN s ELSE Spaces(w - Len(s)) \o s

\* {:0w}: zero padded number.
ZeroPad(n, w) ==
    LET d == Digits(n)
    IN  IF Len(d) >= w THEN d ELSE [i \in 1..(w - Len(d)) |-> "0"] \o d

----------------------------------------------------------------------------
\* VersionId and DateTime<Local>.

\* VersionId::try_from(u32): fails for a number below 1.
VersionId_try_from(n) ==
    IF n < 1
    THEN [ok |-> FALSE, val |-> <<>>, err |-> << "ConfigurationError" >>]
    ELSE [ok |-> TRUE,
          val |-> << [version_num |-> n, version_str |-> << "v" >> \o Digits(n)] >>,
          err |-> <<>>]

VersionIdOf(n) == VersionId_try_from(n).val[1]

\* Ord for VersionId: numeric on the backing integer.
VersionId_cmp(a, b) == IntCmp(a.version_num, b.version_num)

\* A DateTime is <<year, month, day, hour, minute, second>> in one fixed zone.
RECURSIVE DateTime_cmp(_, _)
DateTime_cmp(a, b) ==
    IF a = <<>> THEN "Equal"
    ELSE IF Head(a) = Head(b) THEN DateTime_cmp(Tail(a), Tail(b))
    ELSE IntCmp(Head(a), Head(b))

\* A plausible slip: the number is wrapped without VersionId's check.
parse_version_unchecked(version_num) ==
    IF version_num = <<>>
    THEN [ok |-> TRUE, val |-> <<>>, err |-> <<>>]
    ELSE [ok |-> TRUE,
          val |-> << [version_num |-> version_num[1],
                      version_str |-> << "v" >> \o Digits(version_num[1])] >>,
          err |-> <<>>]

\* parse_version
parse_version(version_num) ==
    IF version_num = <<>>
    THEN [ok |-> TRUE, val |-> <<>>, err |-> <<>>]
    ELSE VersionId_try_from(version_num[1])

----------------------------------------------------------------------------
\* Listing, its two constructors and its rendering.

\* Listing::new
Listing_new(path, details, digest_algorithm) ==
    [version |-> details.last_update.version,
     updated |-> details.last_update.created,
     name |-> path,
     storage_path |-> details.storage_path,
     digest_algorithm |-> << digest_algorithm >>,
     digest |-> << details.digest >>]

\* impl From<&OcflObjectVersion> for Listing
Listing_from(object) ==
    [version |-> object.version,
     updated |-> object.created,
     name |-> object.id,
     storage_path |-> object.root,
     digest_algorithm |-> <<>>,
     digest |-> <<>>]

\* Listing::updated_str: "%Y-%m-%d %H:%M:%S"
updated_str(listing) ==
    LET t == listing.updated
    IN  ZeroPad(t[1], 4) \o << "-" >> \o ZeroPad(t[2], 2) \o << "-" >> \o ZeroPad(t[3], 2)
        \o << " " >> \o ZeroPad(t[4], 2) \o << ":" >> \o ZeroPad(t[5], 2)
        \o << ":" >> \o ZeroPad(t[6], 2)

\* A plausible slip: the digest column's separator is written whenever the flag
\* is set, also for an entry that carries no digest.
FormatListing_trailingTab(listing, command) ==
    (IF command.long
     THEN PadLeft(listing.version.version_str, VersionWidth) \o << TAB >>
          \o PadRight(updated_str(listing), UpdatedWidth) \o << TAB >>
          \o PadRight(listing.name, NameWidth)
     ELSE PadRight(listing.name, NameWidth))
    \o (IF command.physical THEN << TAB >> \o listing.storage_path ELSE <<>>)
    \o (IF command.digest
        THEN << TAB >> \o (IF listing.digest # <<>>
                           THEN listing.digest_algorithm[1] \o << ":" >> \o listing.digest[1]
                           ELSE <<>>)
        ELSE <<>>)

\* FormatListing::fmt
FormatListing(listing, command) ==
    (IF command.long
     THEN PadLeft(listing.version.version_str, VersionWidth) \o << TAB >>
          \o PadRight(updated_str(listing), UpdatedWidth) \o << TAB >>
          \o PadRight(listing.name, NameWidth)
     ELSE PadRight(listing.name, NameWidth))
    \o (IF command.physical THEN << TAB >> \o listing.storage_path ELSE <<>>)
    \o (IF command.digest /\ listing.digest # <<>>
        THEN << TAB >> \o listing.digest_algorithm[1] \o << ":" >> \o listing.digest[1]
        ELSE <<>>)

----------------------------------------------------------------------------
\* The sort of print_object_contents.

\* A plausible slip: versions compared by their string form.
cmp_listings_byVersionStr(sort, a, b) ==
    CASE sort = "Name" -> StrCmp(a.name, b.name)
      [] sort = "Version" -> StrCmp(a.version.version_str, b.version.version_str)
      [] sort = "Updated" -> DateTime_cmp(a.updated, b.updated)
      [] sort = "None" -> "Equal"

\* Field::cmp_listings
cmp_listings(sort, a, b) ==
    CASE sort = "Name" -> StrCmp(a.name, b.name)
      [] sort = "Version" -> VersionId_cmp(a.version, b.version)
      [] sort = "Updated" -> DateTime_cmp(a.updated, b.updated)
      [] sort = "None" -> "Equal"

\* The closure handed to sort_unstable_by.
sort_closure(command, a, b) ==
    IF command.reverse
    THEN cmp_listings(command.sort, b, a)
    ELSE cmp_listings(command.sort, a, b)

\* The listings collected from object.state, in the state's iteration order.
collect_listings(object) ==
    [i \in 1..Len(object.state) |->
        Listing_new(object.state[i].path, object.state[i].details, object.digest_algorithm)]

Bijections(n) == {f \in [1..n -> 1..n] : \A i, j \in 1..n : f[i] = f[j] => i = j}

\* slice::sort_unstable_by: the slice ends up in an order the closure accepts;
\* which of the orders that differ only in equal elements is not specified.
sort_unstable_by(listings, command) ==
    {out \in {[i \in 1..Len(listings) |-> listings[f[i]]] : f \in Bijections(Len(listings))} :
        \A i, j \in 1..Len(out) : i < j => sort_closure(command, out[i], out[j]) # "Greater"}

\* The lines the final loop of print_object_contents (and print_object) prints.
print_listings(listings, command) ==
    [i \in 1..Len(listings) |-> FormatListing(listings[i], command)]

\* print_object
print_object(object, command) == FormatListing(Listing_from(object), command)

----------------------------------------------------------------------------
\* Errors.

\* "{:#}" of an error: its messages, outermost first, joined by ": ".
RECURSIVE FormatChain(_)
FormatChain(error) ==
    IF Len(error) = 1 THEN << error[1] >>
    ELSE << error[1], ": " >> \o FormatChain(Tail(error))

\* print_err: the error stream after the call.
print_err(err_stream, error, quiet) ==
    IF ~quiet
    THEN Append(err_stream, << "Error: " >> \o FormatChain(error))
    ELSE err_stream

----------------------------------------------------------------------------
\* The inputs: command lines and repository behaviours.

ObjectId == << "o", "1" >>
Algorithm == << "m", "d", "5" >>
T1 == << 2019, 12, 31, 23, 59, 59 >>
T2 == << 2020, 1, 1, 0, 0, 0 >>
IoError == << "io error" >>

FileDetails(n, created, storage_path, digest) ==
    [last_update |-> [version |-> VersionIdOf(n), created |-> created],
     storage_path |-> storage_path,
     digest |-> digest]

\* The files an object's state is drawn from: logical path and FileDetails.
FilePool ==
    << [path |-> << "a" >>, details |-> FileDetails(2, T1, << "v", "2", "/", "a" >>, << "d", "a" >>)],
       [path |-> << "b" >>, details |-> FileDetails(10, T1, << "v", "1", "0", "/", "b" >>, << "d", "b" >>)],
       [path |-> << "a", TAB, "b" >>, details |-> FileDetails(2, T2, << "v", "2", "/", "c" >>, << "d", "c" >>)],
       [path |-> << "c" >>, details |-> FileDetails(10, T2, << "v", "1", "0", "/", "d" >>, << "d", "d" >>)],
       [path |-> << "d" >>, details |-> FileDetails(1, T1, << "v", "1", "/", "e" >>, << "d", "e" >>)] >>

Files == {FilePool[i] : i \in 1..(IF MaxFiles < Len(FilePool) THEN MaxFiles ELSE Len(FilePool))}

\* Sequences without repetition over S, of length at most n.
InjectiveSeqs(S, n) ==
    {q \in UNION {[1..k -> S] : k \in 0..n} :
        \A i, j \in 1..Len(q) : q[i] = q[j] => i = j}

\* An object's state: logical paths are unique keys.
States == InjectiveSeqs(Files, MaxFiles)

ObjectVersion(id, n, created, root, state) ==
    [id |-> id, version |-> VersionIdOf(n), created |-> created, root |-> root,
     digest_algorithm |-> Algorithm, state |-> state]

\* What get_object answers: an error, absent, or the object.
GetOutcomes ==
    {[ok |-> FALSE, val |-> <<>>, err |-> IoError], [ok |-> TRUE, val |-> <<>>, err |-> <<>>]}
    \cup {[ok |-> TRUE, val |-> << ObjectVersion(ObjectId, 10, T2, << "r", "1" >>, st) >>, err |-> <<>>] :
            st \in States}

\* The elements list_objects yields: an object, or that element's error.
ListItems ==
    {[ok |-> TRUE, val |-> << ObjectVersion(ObjectId, 2, T1, << "r", "1" >>, <<>>) >>, err |-> <<>>],
     [ok |-> TRUE, val |-> << ObjectVersion(<< "o", TAB, "2" >>, 10, T2, << "r", "2" >>, <<>>) >>, err |-> <<>>],
     [ok |-> FALSE, val |-> <<>>, err |-> IoError]}

\* What list_objects answers: an error, or the sequence it will yield.
ListOutcomes ==
    {[ok |-> FALSE, items |-> <<>>, err |-> IoError]}
    \cup {[ok |-> TRUE, items |-> q, err |-> <<>>] :
            q \in UNION {[1..n -> ListItems] : n \in 0..MaxObjects}}

Fields == {"Name", "Version", "Updated", "None"}

VersionArgs == {<<>>, << 0 >>, << 2 >>}

AllFlags == {<< l, p, d >> : l \in BOOLEAN, p \in BOOLEAN, d \in BOOLEAN}

Commands(flags, versions, sorts, reverses, ids) ==
    {[long |-> f[1], physical |-> f[2], digest |-> f[3], version |-> v, sort |-> s,
      reverse |-> r, object_id |-> id] :
        f \in flags, v \in versions, s \in sorts, r \in reverses, id \in ids}

----------------------------------------------------------------------------
\* The program: main, exec_command, list_command.

NoAnswer == [ok |-> TRUE, val |-> <<>>, err |-> <<>>]
NoListing == [ok |-> TRUE, items |-> <<>>, err |-> <<>>]

\* Display for VersionId: the canonical string.
VersionId_fmt(version) == version.version_str

command == args.command

\* The state at process start: the arguments are parsed, nothing has run.
\* A command with an object id never reaches list_objects and one without
\* never reaches get_object, so the answer not asked for is left fixed.
InitOf(quiets, flags, versions, sorts, reverses) ==
    /\ \/ /\ args \in [quiet : quiets,
                       command : Commands(flags, versions, sorts, reverses, {<< ObjectId >>})]
          /\ repo \in [get : GetOutcomes, list : {NoListing}]
       \/ /\ args \in [quiet : quiets,
                       command : Commands(flags, versions, sorts, reverses, {<<>>})]
          /\ repo \in [get : {NoAnswer}, list : ListOutcomes]
    /\ pc = "main"
    /\ objects = <<>>
    /\ stdout = <<>>
    /\ stderr = <<>>
    /\ queries = <<>>
    /\ ret = <<>>
    /\ prev = <<>>
    /\ sort_memo = [r \in BOOLEAN |-> <<>>]

\* Every command line, with the three display flags all off or all on.
Init ==
    InitOf(BOOLEAN, {<< FALSE, FALSE, FALSE >>, << TRUE, TRUE, TRUE >>}, VersionArgs, Fields, BOOLEAN)

\* Every combination of the display flags, on command lines that list.
InitFormat == InitOf({FALSE}, AllFlags, {<<>>}, {"Name", "None"}, {FALSE})

get_object_query(version) == [op |-> "get_object", id |-> command.object_id, version |-> version]
list_objects_query == [op |-> "list_objects", id |-> <<>>, version |-> <<>>]

Ok == << [ok |-> TRUE, err |-> <<>>] >>
Err(error) == << [ok |-> FALSE, err |-> error] >>

\* A plausible slip: the repository is asked before the selector is validated.
ListVersionInvalid_queryFirst ==
    /\ pc = "main"
    /\ command.object_id # <<>>
    /\ ~parse_version(command.version).ok
    /\ queries' = Append(queries, get_object_query(<<>>))
    /\ ret' = Err(parse_version(command.version).err)
    /\ pc' = "exec_return"
    /\ UNCHANGED <<args, repo, objects, stdout, stderr, prev, sort_memo>>

\* list_command, object id given, parse_version fails: `?` returns the error.
ListVersionInvalid ==
    /\ pc = "main"
    /\ command.object_id # <<>>
    /\ ~parse_version(command.version).ok
    /\ ret' = Err(parse_version(command.version).err)
    /\ pc' = "exec_return"
    /\ UNCHANGED <<args, repo, objects, stdout, stderr, queries, prev, sort_memo>>

\* list_command, object id given, get_object answers Ok(Some(object)):
\* print_object_contents collects, sorts and prints the object's state.
ListObjectFound ==
    /\ pc = "main"
    /\ command.object_id # <<>>
    /\ parse_version(command.version).ok
    /\ repo.get.ok /\ repo.get.val # <<>>
    /\ queries' = Append(queries, get_object_query(parse_version(command.version).val))
    /\ \E out \in sort_unstable_by(collect_listings(repo.get.val[1]), command) :
          /\ sort_memo[command.reverse] \in {<<>>, << out >>}
          /\ sort_memo' = [sort_memo EXCEPT ![command.reverse] = << out >>]
          /\ stdout' = stdout \o print_listings(out, command)
    /\ ret' = Ok
    /\ pc' = "exec_return"
    /\ UNCHANGED <<args, repo, objects, stderr, prev>>

\* A plausible slip: the message never names the version.
ListObjectNotFound_noVersion ==
    /\ pc = "main"
    /\ command.object_id # <<>>
    /\ parse_version(command.version).ok
    /\ repo.get.ok /\ repo.get.val = <<>>
    /\ queries' = Append(queries, get_object_query(parse_version(command.version).val))
    /\ stdout' = Append(stdout, << "Object " >> \o command.object_id[1] \o << " was not found" >>)
    /\ ret' = Ok
    /\ pc' = "exec_return"
    /\ UNCHANGED <<args, repo, objects, stderr, prev, sort_memo>>

\* list_command, object id given, get_object answers Ok(None).
ListObjectNotFound ==
    /\ pc = "main"
    /\ command.object_id # <<>>
    /\ parse_version(command.version).ok
    /\ repo.get.ok /\ repo.get.val = <<>>
    /\ queries' = Append(queries, get_object_query(parse_version(command.version).val))
    /\ stdout' = Append(stdout,
          IF parse_version(command.version).val # <<>>
          THEN << "Object " >> \o command.object_id[1] \o << " version " >>
               \o VersionId_fmt(parse_version(command.version).val[1]) \o << " was not found" >>
          ELSE << "Object " >> \o command.object_id[1] \o << " was not found" >>)
    /\ ret' = Ok
    /\ pc' = "exec_return"
    /\ UNCHANGED <<args, repo, objects, stderr, prev, sort_memo>>

\* A plausible slip: the error is reported and the query issued again.
ListObjectError_retry ==
    /\ pc = "main"
    /\ command.object_id # <<>>
    /\ parse_version(command.version).ok
    /\ ~repo.get.ok
    /\ queries' = queries \o << get_object_query(parse_version(command.version).val),
                                get_object_query(parse_version(command.version).val) >>
    /\ stderr' = print_err(stderr, repo.get.err, args.quiet)
    /\ ret' = Ok
    /\ pc' = "exec_return"
    /\ UNCHANGED <<args, repo, objects, stdout, prev, sort_memo>>

\* list_command, object id given, get_object answers Err(e): the error is
\* printed here and list_command goes on to its final Ok(()).
ListObjectError ==
    /\ pc = "main"
    /\ command.object_id # <<>>
    /\ parse_version(command.version).ok
    /\ ~repo.get.ok
    /\ queries' = Append(queries, get_object_query(parse_version(command.version).val))
    /\ stderr' = print_err(stderr, repo.get.err, args.quiet)
    /\ ret' = Ok
    /\ pc' = "exec_return"
    /\ UNCHANGED <<args, repo, objects, stdout, prev, sort_memo>>

\* list_command, no object id, list_objects fails: `?` returns the error with
\* its context.
ListObjectsFail ==
    /\ pc = "main"
    /\ command.object_id = <<>>
    /\ ~repo.list.ok
    /\ queries' = Append(queries, list_objects_query)
    /\ ret' = Err(<< "Failed to list objects" >> \o repo.list.err)
    /\ pc' = "exec_return"
    /\ UNCHANGED <<args, repo, objects, stdout, stderr, prev, sort_memo>>

\* list_command, no object id, list_objects answers an iterator.
ListObjectsStart ==
    /\ pc = "main"
    /\ command.object_id = <<>>
    /\ repo.list.ok
    /\ queries' = Append(queries, list_objects_query)
    /\ objects' = repo.list.items
    /\ pc' = "for_object"
    /\ UNCHANGED <<args, repo, stdout, stderr, ret, prev, sort_memo>>

\* The for loop's body, the element is Ok(object).
LoopOk ==
    /\ pc = "for_object"
    /\ objects # <<>>
    /\ Head(objects).ok
    /\ stdout' = Append(stdout, print_object(Head(objects).val[1], command))
    /\ objects' = Tail(objects)
    /\ UNCHANGED <<args, repo, pc, stderr, queries, ret, prev, sort_memo>>

\* A plausible slip: the first failing element ends the enumeration.
LoopErr_abort ==
    /\ pc = "for_object"
    /\ objects # <<>>
    /\ ~Head(objects).ok
    /\ stderr' = print_err(stderr, Head(objects).err, args.quiet)
    /\ objects' = <<>>
    /\ UNCHANGED <<args, repo, pc, stdout, queries, ret, prev, sort_memo>>

\* A plausible slip: in quiet mode a failing element ends the enumeration.
LoopErr_quietBreak ==
    /\ pc = "for_object"
    /\ objects # <<>>
    /\ ~Head(objects).ok
    /\ stderr' = print_err(stderr, Head(objects).err, args.quiet)
    /\ objects' = IF args.quiet THEN <<>> ELSE Tail(objects)
    /\ UNCHANGED <<args, repo, pc, stdout, queries, ret, prev, sort_memo>>

\* The for loop's body, the element is Err(e).
LoopErr ==
    /\ pc = "for_object"
    /\ objects # <<>>
    /\ ~Head(objects).ok
    /\ stderr' = print_err(stderr, Head(objects).err, args.quiet)
    /\ objects' = Tail(objects)
    /\ UNCHANGED <<args, repo, pc, stdout, queries, ret, prev, sort_memo>>

\* The iterator is exhausted: list_command returns Ok(()).
LoopEnd ==
    /\ pc = "for_object"
    /\ objects = <<>>
    /\ ret' = Ok
    /\ pc' = "exec_return"
    /\ UNCHANGED <<args, repo, objects, stdout, stderr, queries, prev, sort_memo>>

\* main, after exec_command: an Err is printed; the process ends.
MainReturn ==
    /\ pc = "exec_return"
    /\ stderr' = IF ret[1].ok THEN stderr ELSE print_err(stderr, ret[1].err, args.quiet)
    /\ pc' = "exit"
    /\ UNCHANGED <<args, repo, objects, stdout, queries, ret, prev, sort_memo>>

\* What one finished invocation did.
Observation ==
    [args |-> args, queries |-> queries, stdout |-> stdout, stderr |-> stderr, ret |-> ret]

\* The program is run a second time on the same repository, with -q toggled.
RestartQuiet ==
    /\ pc = "exit"
    /\ prev = <<>>
    /\ prev' = << Observation >>
    /\ args' = [args EXCEPT !.quiet = ~@]
    /\ pc' = "main"
    /\ objects' = <<>> /\ stdout' = <<>> /\ stderr' = <<>> /\ queries' = <<>> /\ ret' = <<>>
    /\ UNCHANGED <<repo, sort_memo>>

\* The program is run a second time on the same repository, with -r toggled.
RestartReverse ==
    /\ pc = "exit"
    /\ prev = <<>>
    /\ prev' = << Observation >>
    /\ args' = [args EXCEPT !.command.reverse = ~@]
    /\ pc' = "main"
    /\ objects' = <<>> /\ stdout' = <<>> /\ stderr' = <<>> /\ queries' = <<>> /\ ret' = <<>>
    /\ UNCHANGED <<repo, sort_memo>>

Next ==
    \/ ListVersionInvalid
    \/ ListObjectFound
    \/ ListObjectNotFound
    \/ ListObjectError
    \/ ListObjectsFail
    \/ ListObjectsStart
    \/ LoopOk
    \/ LoopErr
    \/ LoopEnd
    \/ MainReturn
    \/ RestartQuiet
    \/ RestartReverse

Spec == Init /\ [][Next]_vars

\* One invocation of a command line whose version selector is valid.
NextFormat ==
    \/ ListObjectFound
    \/ ListObjectNotFound
    \/ ListObjectError
    \/ ListObjectsFail
    \/ ListObjectsStart
    \/ LoopOk
    \/ LoopErr
    \/ LoopEnd
    \/ MainReturn

SpecFormat == InitFormat /\ [][NextFormat]_vars

----------------------------------------------------------------------------
\* Properties.

Returned == pc \in {"exec_return", "exit"}
SingleObject == command.object_id # <<>>
ConfigurationError == Err(<< "ConfigurationError" >>)
InvalidVersion == command.version # <<>> /\ command.version[1] < 1

\* The single-object lookup was made and answered with the object.
Found == SingleObject /\ parse_version(command.version).ok /\ repo.get.ok /\ repo.get.val # <<>>

\* The entries of the object's state, in the order the state supplies them.
Entries == collect_listings(repo.get.val[1])

\* The position in `lines` of the line that shows `listing` (names are unique keys).
LinePos(lines, listing) ==
    CHOOSE k \in 1..Len(lines) : lines[k] = FormatListing(listing, command)

Report(error) == << "Error: " >> \o FormatChain(error)

\* The elements of the enumeration already pulled from the iterator.
Consumed == SubSeq(repo.list.items, 1, Len(repo.list.items) - Len(objects))

RECURSIVE OkLines(_)
OkLines(items) ==
    IF items = <<>> THEN <<>>
    ELSE (IF Head(items).ok THEN << print_object(Head(items).val[1], command) >> ELSE <<>>)
         \o OkLines(Tail(items))

RECURSIVE ErrReports(_)
ErrReports(items) ==
    IF items = <<>> THEN <<>>
    ELSE (IF Head(items).ok THEN <<>> ELSE << Report(Head(items).err) >>)
         \o ErrReports(Tail(items))

\* C1: in a whole-repository listing every ok element of the enumeration gives
\* exactly one output line, the lines are in enumeration order whatever the
\* sort field and reverse flag, every failing element gives no output line and
\* (unless quiet) exactly one error report, and the enumeration runs to its end.
C1_EnumerationOrder ==
    (~SingleObject /\ repo.list.ok /\ pc # "main") =>
        /\ stdout = OkLines(Consumed)
        /\ stderr = (IF args.quiet THEN <<>> ELSE ErrReports(Consumed))
        /\ Returned => (objects = <<>> /\ ret = Ok)

C1_Witness ==
    /\ pc = "exit" /\ ~SingleObject /\ repo.list.ok /\ ~args.quiet
    /\ command.reverse /\ command.sort = "Version"
    /\ Len(repo.list.items) = 3
    /\ repo.list.items[1].ok /\ ~repo.list.items[2].ok /\ repo.list.items[3].ok
    /\ repo.list.items[1] # repo.list.items[3]
    /\ Len(stdout) = 2 /\ Len(stderr) = 1

\* C2: the within-object sort is stable: entries whose sort keys compare equal
\* are printed in the relative order in which the object's state supplies them,
\* and with sort field None the printed order is the state's order.
C2_StableSort ==
    (Found /\ Returned) =>
        /\ Len(stdout) = Len(Entries)
        /\ \A i, j \in 1..Len(Entries) :
              (i < j /\ cmp_listings(command.sort, Entries[i], Entries[j]) = "Equal")
                  => LinePos(stdout, Entries[i]) < LinePos(stdout, Entries[j])
        /\ command.sort = "None" => stdout = print_listings(Entries, command)

\* C3: the listing with reverse on is the listing with reverse off with the
\* groups of distinct keys in the opposite order, while entries with equal keys
\* keep their original relative order in both directions.
C3_ReverseLaw ==
    (Found /\ pc = "exit" /\ prev # <<>> /\ prev[1].args = [args EXCEPT !.command.reverse = ~@]) =>
        \A i, j \in 1..Len(Entries) :
            i < j =>
                IF cmp_listings(command.sort, Entries[i], Entries[j]) = "Equal"
                THEN /\ LinePos(stdout, Entries[i]) < LinePos(stdout, Entries[j])
                     /\ LinePos(prev[1].stdout, Entries[i]) < LinePos(prev[1].stdout, Entries[j])
                ELSE (LinePos(stdout, Entries[i]) < LinePos(stdout, Entries[j]))
                     # (LinePos(prev[1].stdout, Entries[i]) < LinePos(prev[1].stdout, Entries[j]))

\* C4: with an object id and a version selector of zero, list_command fails
\* with a configuration error and no repository query has been issued and no
\* line written to standard output.
C4_InvalidVersionNoQuery ==
    (SingleObject /\ command.version = << 0 >> /\ Returned) =>
        /\ queries = <<>>
        /\ stdout = <<>>
        /\ ret = ConfigurationError

C4_Witness ==
    /\ pc = "exec_return" /\ SingleObject /\ command.version = << 0 >>
    /\ ret = ConfigurationError /\ repo.get.ok /\ repo.get.val # <<>>

\* C5 as stated: every command line with an invalid version selector, with or
\* without an object id, fails with a configuration error before any repository
\* query and writes no listing output.
C5_AnyInvalidVersionAborts ==
    (InvalidVersion /\ Returned) =>
        /\ queries = <<>>
        /\ stdout = <<>>
        /\ ret = ConfigurationError

\* C5 amended: a command line that gives an object id and an invalid version
\* selector fails with a configuration error before any repository query,
\* writes no listing output and reports the error once unless quiet; a command
\* line without an object id never validates the selector and goes on to
\* list_objects.
C5_InvalidVersionAbortsWithObjectId ==
    (InvalidVersion /\ pc = "exit") =>
        IF SingleObject
        THEN /\ queries = <<>>
             /\ stdout = <<>>
             /\ ret = ConfigurationError
             /\ stderr = (IF args.quiet THEN <<>> ELSE << Report(<< "ConfigurationError" >>) >>)
        ELSE /\ queries = << list_objects_query >>
             /\ ret # ConfigurationError
             /\ repo.list.ok => (ret = Ok /\ stdout = OkLines(repo.list.items))

C5_Witness ==
    /\ pc = "exit" /\ SingleObject /\ InvalidVersion /\ ~args.quiet
    /\ stderr = << Report(<< "ConfigurationError" >>) >>
    /\ queries = <<>>

TokenThen(line, t, rest) ==
    \E k \in 1..Len(line) :
        /\ line[k] = t
        /\ k + Len(rest) <= Len(line)
        /\ SubSeq(line, k + 1, k + Len(rest)) = rest

\* C7: when get_object answers absent, exactly one line is written to standard
\* output, nothing to the error stream, list_command succeeds, and the line
\* names the version exactly when a version selector was given.
C7_NotFoundIsInformational ==
    (SingleObject /\ parse_version(command.version).ok /\ repo.get.ok /\ repo.get.val = <<>>
        /\ Returned) =>
        /\ Len(stdout) = 1
        /\ stderr = <<>>
        /\ ret = Ok
        /\ TokenThen(stdout[1], "Object ", command.object_id[1])
        /\ TokenThen(stdout[1], " version ", <<>>) <=> (command.version # <<>>)
        /\ command.version # <<>> =>
              TokenThen(stdout[1], " version ", << "v" >> \o Digits(command.version[1]))

C7_Witness ==
    /\ pc = "exit" /\ SingleObject /\ command.version = << 2 >>
    /\ repo.get.ok /\ repo.get.val = <<>>
    /\ Len(stdout) = 1 /\ TokenThen(stdout[1], " version ", << "v", "2" >>)

\* C8: quiet mode never changes control flow: two invocations that differ only
\* in the quiet flag issue the same queries, write the same lines to standard
\* output and end with the same result, and a quiet invocation writes nothing
\* to the error stream.
C8_QuietSameControlFlow ==
    /\ args.quiet => stderr = <<>>
    /\ (pc = "exit" /\ prev # <<>> /\ prev[1].args = [args EXCEPT !.quiet = ~@]) =>
          /\ queries = prev[1].queries
          /\ stdout = prev[1].stdout
          /\ ret = prev[1].ret
          /\ prev[1].args.quiet => prev[1].stderr = <<>>

C8_Witness ==
    /\ pc = "exit" /\ prev # <<>> /\ prev[1].args = [args EXCEPT !.quiet = ~@]
    /\ args.quiet /\ Len(prev[1].stderr) = 1 /\ Len(stdout) = 2 /\ Len(queries) = 1

\* The columns a line is made of.
Columns(listing) ==
    (IF command.long
     THEN << PadLeft(listing.version.version_str, VersionWidth),
             PadRight(updated_str(listing), UpdatedWidth) >>
     ELSE <<>>)
    \o << PadRight(listing.name, NameWidth) >>
    \o (IF command.physical THEN << listing.storage_path >> ELSE <<>>)
    \o (IF command.digest /\ listing.digest # <<>>
        THEN << listing.digest_algorithm[1] \o << ":" >> \o listing.digest[1] >>
        ELSE <<>>)

RECURSIVE JoinTabs(_)
JoinTabs(columns) ==
    IF Len(columns) = 1 THEN columns[1]
    ELSE columns[1] \o << TAB >> \o JoinTabs(Tail(columns))

Tabs(str) == Cardinality({k \in 1..Len(str) : str[k] = TAB})

\* The listing entries behind the lines written so far, in line order.
Printed ==
    IF SingleObject
    THEN (IF Found /\ Returned THEN sort_memo[command.reverse][1] ELSE <<>>)
    ELSE (IF repo.list.ok /\ pc # "main"
          THEN LET ok == SelectSeq(Consumed, LAMBDA item : item.ok)
               IN  [k \in 1..Len(ok) |-> Listing_from(ok[k].val[1])]
          ELSE <<>>)

\* C9 as stated: every line is the enabled columns joined by single tabs, with
\* no leading or trailing separator; with all flags off the line contains no
\* tab; an entry built from an object summary is rendered the same with the
\* digest flag on and off.
C9_LineIsColumnsNoTab ==
    (Found \/ (~SingleObject /\ repo.list.ok)) =>
        /\ Len(stdout) = Len(Printed)
        /\ \A k \in 1..Len(Printed) :
              /\ stdout[k] = JoinTabs(Columns(Printed[k]))
              /\ (~command.long /\ ~command.physical /\ ~command.digest) => Tabs(stdout[k]) = 0
              /\ ~SingleObject =>
                    stdout[k] = FormatListing(Printed[k], [command EXCEPT !.digest = ~@])

\* C9 amended: every line is the enabled columns joined by single tabs, with no
\* leading or trailing separator; with all flags off the line is the padded
\* displayName alone, so it contains no tab other than those of the displayName
\* itself; an entry built from an object summary is rendered the same with the
\* digest flag on and off.
C9_LineIsColumns ==
    (Found \/ (~SingleObject /\ repo.list.ok)) =>
        /\ Len(stdout) = Len(Printed)
        /\ \A k \in 1..Len(Printed) :
              /\ stdout[k] = JoinTabs(Columns(Printed[k]))
              /\ (~command.long /\ ~command.physical /\ ~command.digest) =>
                    /\ stdout[k] = PadRight(Printed[k].name, NameWidth)
                    /\ Tabs(stdout[k]) = Tabs(Printed[k].name)
              /\ ~SingleObject =>
                    stdout[k] = FormatListing(Printed[k], [command EXCEPT !.digest = ~@])

C9_Witness ==
    /\ pc = "exit" /\ Found /\ command.long /\ command.physical /\ command.digest
    /\ Len(stdout) = 2
    /\ Tabs(stdout[1]) = 4 + Tabs(Printed[1].name)
    /\ Tabs(Printed[2].name) = 1

\* C10: sorting a within-object listing by Version, reverse off, prints an
\* entry with the smaller version number before one with the larger (version 2
\* before version 10).
C10_VersionNumericOrder ==
    (Found /\ Returned /\ command.sort = "Version" /\ ~command.reverse) =>
        \A i, j \in 1..Len(Entries) :
            Entries[i].version.version_num < Entries[j].version.version_num
                => LinePos(stdout, Entries[i]) < LinePos(stdout, Entries[j])

C10_Witness ==
    /\ pc = "exit" /\ Found /\ command.sort = "Version" /\ ~command.reverse
    /\ Len(stdout) = 2
    /\ Entries[1].version.version_num = 10 /\ Entries[2].version.version_num = 2
    /\ LinePos(stdout, Entries[2]) = 1

====
